---- MODULE Spec2Model ----
(***************************************************************************)
(* Model of the LangGraph card agent of src/src/card_agent_graph.py.       *)
(*                                                                         *)
(* The compiled StateGraph runs in supersteps: the nodes triggered by the  *)
(* previous superstep all read the same snapshot of the state, each        *)
(* returns a partial update, and the updates are merged when the superstep *)
(* ends.  An edge a -> b triggers b in the superstep after a ran; a        *)
(* conditional edge of a is evaluated on the snapshot with a's own update  *)
(* merged.  A Python dict is a function whose DOMAIN is its set of keys.   *)
(***************************************************************************)
EXTENDS Integers, Sequences, FiniteSets, TLC

\* ------------------------------------------------------------------ bounds
\* Supersteps of one invoke that are explored (the graph library itself
\* gives up with a recursion error after 25).
MaxSupersteps == 12

\* Submissions of one browser session that are explored.
MaxRuns == 2

\* Lengths of the rationale texts the model may put in "reason".
ShortLen == 12
LongLen == 480
HugeLen == 510

\* --------------------------------------------------------------- constants
max_steps == 6
ReasonCap == 500

END == "__end__"
None == "<None>"
NoneText == << <<"<None>", 0>> >>

\* ----------------------------------------------------------------- strings
\* A text whose length matters is a sequence of runs <<source text, number
\* of its leading characters kept>>; "" is the empty sequence.
RECURSIVE StrLen(_)
StrLen(s) == IF s = << >> THEN 0 ELSE s[1][2] + StrLen(Tail(s))

\* s[:n]
RECURSIVE Take(_, _)
Take(s, n) ==
    IF s = << >> \/ n <= 0 THEN << >>
    ELSE IF s[1][2] <= n THEN <<s[1]>> \o Take(Tail(s), n - s[1][2])
    ELSE << <<s[1][1], n>> >>

Text(name, n) == IF n = 0 THEN << >> ELSE << <<name, n>> >>

EMPTY == << >>
PARSE_ERROR == Text("parse_error", 11)
GUARD_ANNOTATION == Text(" | Guarded: validating before action", 36)
APOLOGY == "I'm sorry, I couldn't process that."
VALIDATION_REASON == "Mock validation passed."
REPLACE_RESULT == "Replacement completed. A new card will arrive in 5-7 business days."
CANCEL_RESULT == "Cancellation completed. Your card is now inactive."

\* ------------------------------------------------------------------- dicts
\* d.get(k, default)
Get(d, k, default) == IF k \in DOMAIN d THEN d[k] ELSE default

EmptyDict == [k \in {} |-> 0]

\* the state with a node's update merged
Merge(update, d) == update @@ d

\* -------------------------------------------------- language-model gateway
\* What llm.generate may return to the classifier: text json.loads rejects,
\* JSON that is not an object (parsed.get raises), or a JSON object.
ClassifierResponses ==
    { [kind |-> "nonjson", obj |-> EmptyDict],
      [kind |-> "nonobject", obj |-> EmptyDict],
      [kind |-> "object", obj |-> EmptyDict],
      [kind |-> "object", obj |-> ("intent" :> "cancel")],
      [kind |-> "object", obj |-> ("reason" :> "short")],
      [kind |-> "object", obj |-> ("intent" :> "cancel") @@ ("reason" :> "short")],
      [kind |-> "object", obj |-> ("intent" :> "replace") @@ ("reason" :> "short")],
      [kind |-> "object", obj |-> ("intent" :> "unknown") @@ ("reason" :> "short")],
      [kind |-> "object", obj |-> ("intent" :> "refund") @@ ("reason" :> "short")],
      [kind |-> "object", obj |-> ("intent" :> None) @@ ("reason" :> "short")] }

PlannerActions == {"validate", "replace", "cancel", "finish", "refund", None}

\* What llm.generate may return to the planner.
PlannerResponses ==
    { [kind |-> "nonjson", obj |-> EmptyDict],
      [kind |-> "nonobject", obj |-> EmptyDict],
      [kind |-> "object", obj |-> EmptyDict] }
    \cup { [kind |-> "object",
            obj |-> ("next_action" :> a) @@ ("assistant_message" :> "msg")
                    @@ ("reason" :> Text("rationale", ShortLen))] :
           a \in PlannerActions }
    \cup { [kind |-> "object",
            obj |-> ("next_action" :> "cancel") @@ ("intent" :> "cancel")
                    @@ ("reason" :> Text("rationale", n))] :
           n \in {LongLen, HugeLen} }
    \cup { [kind |-> "object",
            obj |-> ("next_action" :> "replace") @@ ("reason" :> NoneText)] }

\* ----------------------------------------------------------------- agents
intent_agent(resp) ==
    IF resp.kind = "object"
    THEN ("intent" :> Get(resp.obj, "intent", "unknown"))
         @@ ("intent_reason" :> Get(resp.obj, "reason", ""))
    ELSE ("intent" :> "unknown") @@ ("intent_reason" :> "parse_error")

planner_agent(resp, s) ==
    IF resp.kind = "object"
    THEN ("next_action" :> Get(resp.obj, "next_action", "finish"))
         @@ ("assistant_message" :> Get(resp.obj, "assistant_message", ""))
         @@ ("intent" :> Get(resp.obj, "intent", Get(s, "intent", "unknown")))
         @@ ("plan_reason" :> Get(resp.obj, "reason", EMPTY))
    ELSE ("next_action" :> "finish") @@ ("assistant_message" :> APOLOGY)
         @@ ("plan_reason" :> PARSE_ERROR)

\* ------------------------------------------------------------------ tools
\* The validation tool also reporting a result.
validate_ownership_tool_SetsResult(s) ==
    ("validated" :> TRUE) @@ ("validation_reason" :> VALIDATION_REASON)
    @@ ("result" :> VALIDATION_REASON)

\* The validation tool flipping the flag it finds.
validate_ownership_tool_Toggles(s) ==
    ("validated" :> ~Get(s, "validated", FALSE))
    @@ ("validation_reason" :> VALIDATION_REASON)

validate_ownership_tool(s) ==
    ("validated" :> TRUE) @@ ("validation_reason" :> VALIDATION_REASON)

replace_card_tool(s) == ("result" :> REPLACE_RESULT)

cancel_card_tool(s) == ("result" :> CANCEL_RESULT)

\* ------------------------------------------------------------ graph nodes
classify_node(resp, s) == intent_agent(resp)

\* The guard reading "validated" with the wrong default.
GuardFires_DefaultValidated(out, s) ==
    /\ Get(out, "next_action", None) \in {"replace", "cancel"}
    /\ ~Get(s, "validated", TRUE)

\* The guard covering replace only.
GuardFires_ReplaceOnly(out, s) ==
    /\ Get(out, "next_action", None) \in {"replace"}
    /\ ~Get(s, "validated", FALSE)

\* The auto-guard's condition.
GuardFires(out, s) ==
    /\ Get(out, "next_action", None) \in {"replace", "cancel"}
    /\ ~Get(s, "validated", FALSE)

\* str + str raises TypeError when the rationale is not a string.
GuardRaises(out, s) ==
    GuardFires(out, s) /\ Get(out, "plan_reason", EMPTY) = NoneText

planner_node(resp, s) ==
    LET out == planner_agent(resp, s) IN
    IF GuardFires(out, s)
    THEN ("next_action" :> "validate")
         @@ ("plan_reason" :>
                Take(Get(out, "plan_reason", EMPTY) \o GUARD_ANNOTATION, ReasonCap))
         @@ out
    ELSE out

tool_node(s) ==
    LET action == Get(s, "next_action", "finish") IN
    IF action = "validate" THEN validate_ownership_tool(s)
    ELSE IF action = "replace" THEN replace_card_tool(s)
    ELSE IF action = "cancel" THEN cancel_card_tool(s)
    ELSE EmptyDict

\* The counter starting from the wrong default.
step_node_DefaultOne(s) == ("step_count" :> Get(s, "step_count", 1) + 1)

step_node(s) == ("step_count" :> Get(s, "step_count", 0) + 1)

\* The router with its two outcomes swapped.
route_after_planner_Swapped(s) ==
    IF Get(s, "next_action", None) = "finish" THEN "tool" ELSE END

route_after_planner(s) ==
    IF Get(s, "next_action", None) = "finish" THEN END ELSE "tool"

route_after_tool(s) ==
    IF "result" \in DOMAIN s THEN END
    ELSE IF Get(s, "step_count", 0) >= max_steps THEN END
    ELSE "planner"

Target(route) == IF route = END THEN {} ELSE {route}

\* ------------------------------------------------------------------ state
VARIABLES
    state,        \* the CardState as of the last completed superstep
    pending,      \* nodes of the current superstep that have not run yet
    writes,       \* updates returned by the nodes that ran in this superstep
    nextTrig,     \* nodes triggered for the next superstep
    text,         \* what llm.generate returned to the agents of this superstep
    status,       \* "running", "done" (invoke returned), "error" (invoke raised)
    superstep,    \* number of the current superstep
    hist,         \* history of the run (observations only)
    session,      \* st.session_state.state, what the page displays
    run           \* number of the current submission

vars == <<state, pending, writes, nextTrig, text, status, superstep, hist,
          session, run>>

Destructive == {"replace", "cancel"}

\* The planner's proposals so far: "none", "validate" (always validate),
\* "destructive" (always replace or cancel) or "mixed".
Mode(old, proposal) ==
    LET new == IF proposal = "validate" THEN "validate"
               ELSE IF proposal \in Destructive THEN "destructive"
               ELSE "mixed"
    IN IF old = "none" \/ old = new THEN new ELSE "mixed"

USER_INPUT == "please cancel my card ending 4321"

\* The submission handler keeping what the session state held.
FreshState_Reused(previous, user_text) ==
    ("user_input" :> user_text) @@ previous

\* The state a submission hands to graph.invoke: the session state is
\* replaced by a dict that holds the request only.
FreshState(previous, user_text) == ("user_input" :> user_text)

InitHist == [ dispatches |-> 0,        \* tool_node executions
              mode |-> "none",         \* what planner_agent proposed so far
              ownValidate |-> FALSE,   \* tool_node has dispatched validate
              error |-> "" ]           \* what made the invoke raise

\* The first submission of a session (st.session_state.state was {}).
Init ==
    /\ session = FreshState(EmptyDict, USER_INPUT)
    /\ state = session
    /\ pending = {"classify"}
    /\ writes = EmptyDict
    /\ nextTrig = {}
    /\ text = EmptyDict
    /\ status = "running"
    /\ superstep = 1
    /\ hist = InitHist
    /\ run = 1

\* The agents with llm.generate inside the try block.
OnGatewayError_Caught(agent) == "parse_error"

\* How a gateway exception leaves an agent: llm.generate is called before
\* the try block of both agents, so the exception is raised to the caller.
OnGatewayError(agent) == "raise"

\* classify_node: the classifier parses a response of the gateway.
RunClassify ==
    /\ status = "running"
    /\ "classify" \in pending
    /\ \E resp \in ClassifierResponses :
          /\ writes' = Merge(classify_node(resp, state), writes)
          /\ text' = ("classify" :> resp) @@ text
    /\ pending' = pending \ {"classify"}
    /\ nextTrig' = nextTrig \cup {"planner"}
    /\ UNCHANGED <<state, status, superstep, hist, session, run>>

\* An exception raised in a node makes the invoke raise; the updates of the
\* superstep are not applied and nothing more of the run executes.
Abort(why) ==
    /\ status' = "error"
    /\ pending' = {}
    /\ writes' = EmptyDict
    /\ nextTrig' = {}
    /\ hist' = [hist EXCEPT !.error = why]
    /\ UNCHANGED <<state, text, superstep, session, run>>

Unparsable == [kind |-> "nonjson", obj |-> EmptyDict]

\* classify_node when llm.generate raises.
ClassifyGatewayFails ==
    /\ status = "running"
    /\ "classify" \in pending
    /\ IF OnGatewayError("intent_agent") = "raise"
       THEN Abort("gateway")
       ELSE /\ writes' = Merge(intent_agent(Unparsable), writes)
            /\ hist' = [hist EXCEPT !.error = "gateway"]
            /\ pending' = pending \ {"classify"}
            /\ nextTrig' = nextTrig \cup {"planner"}
            /\ UNCHANGED <<state, text, status, superstep, session, run>>

PlannerRan(resp, out, err) ==
    /\ writes' = Merge(out, writes)
    /\ text' = ("planner" :> resp) @@ text
    /\ pending' = pending \ {"planner"}
    /\ nextTrig' = nextTrig \cup Target(route_after_planner(Merge(out, state)))
    /\ hist' = [hist EXCEPT
                  !.mode = Mode(@, planner_agent(resp, state)["next_action"]),
                  !.error = err]
    /\ UNCHANGED <<state, status, superstep, session, run>>

\* planner_node: planner_agent parses a response, the auto-guard rewrites it,
\* route_after_planner picks the next node.
RunPlanner ==
    /\ status = "running"
    /\ "planner" \in pending
    /\ \E resp \in PlannerResponses :
          /\ ~GuardRaises(planner_agent(resp, state), state)
          /\ PlannerRan(resp, planner_node(resp, state), hist.error)

\* planner_node when the guard concatenates a rationale that is not a string.
PlannerGuardRaises ==
    /\ status = "running"
    /\ "planner" \in pending
    /\ \E resp \in PlannerResponses :
          /\ GuardRaises(planner_agent(resp, state), state)
          /\ Abort("TypeError")

\* planner_node when llm.generate raises.
PlannerGatewayFails ==
    /\ status = "running"
    /\ "planner" \in pending
    /\ IF OnGatewayError("planner_agent") = "raise"
       THEN Abort("gateway")
       ELSE PlannerRan(Unparsable, planner_node(Unparsable, state), "gateway")

\* tool_node: dispatch of the state's next_action; both edges out of "tool"
\* fire: the edge to "step" and the conditional edge route_after_tool.
RunTool ==
    /\ status = "running"
    /\ "tool" \in pending
    /\ LET out == tool_node(state) IN
          /\ writes' = Merge(out, writes)
          /\ nextTrig' = nextTrig \cup {"step"}
                            \cup Target(route_after_tool(Merge(out, state)))
    /\ hist' = [hist EXCEPT
                  !.dispatches = @ + 1,
                  !.ownValidate = @ \/ Get(state, "next_action", "finish") = "validate"]
    /\ pending' = pending \ {"tool"}
    /\ UNCHANGED <<state, text, status, superstep, session, run>>

\* step_node: the counter; its edge leads to "planner".
RunStep ==
    /\ status = "running"
    /\ "step" \in pending
    /\ writes' = Merge(step_node(state), writes)
    /\ pending' = pending \ {"step"}
    /\ nextTrig' = nextTrig \cup {"planner"}
    /\ UNCHANGED <<state, text, status, superstep, hist, session, run>>

\* End of a superstep: the updates are merged into the state and the
\* triggered nodes become the next superstep; with none the invoke returns
\* and the page merges the returned state into the session state.
Commit ==
    /\ status = "running"
    /\ pending = {}
    /\ nextTrig # {} => superstep < MaxSupersteps
    /\ state' = Merge(writes, state)
    /\ writes' = EmptyDict
    /\ nextTrig' = {}
    /\ text' = EmptyDict
    /\ pending' = nextTrig
    /\ IF nextTrig = {}
       THEN /\ status' = "done"
            /\ session' = Merge(state', session)
            /\ UNCHANGED superstep
       ELSE /\ status' = "running"
            /\ superstep' = superstep + 1
            /\ UNCHANGED session
    /\ UNCHANGED <<hist, run>>

\* The user submits again once the previous invoke has returned or raised.
Submit ==
    /\ status # "running"
    /\ run < MaxRuns
    /\ session' = FreshState(session, USER_INPUT)
    /\ state' = session'
    /\ pending' = {"classify"}
    /\ writes' = EmptyDict
    /\ nextTrig' = {}
    /\ text' = EmptyDict
    /\ status' = "running"
    /\ superstep' = 1
    /\ hist' = InitHist
    /\ run' = run + 1

\* The steps of one invoke.
RunNext ==
    \/ RunClassify
    \/ ClassifyGatewayFails
    \/ RunPlanner
    \/ PlannerGuardRaises
    \/ PlannerGatewayFails
    \/ RunTool
    \/ RunStep
    \/ Commit

Next == RunNext \/ Submit

Spec == Init /\ [][Next]_vars

TypeOK ==
    /\ pending \subseteq {"classify", "planner", "tool", "step"}
    /\ nextTrig \subseteq {"planner", "tool", "step"}
    /\ status \in {"running", "done", "error"}
    /\ superstep \in 1..MaxSupersteps
    /\ run \in 1..MaxRuns

\* ------------------------------------------------------------------ claims
FourActions == {"validate", "replace", "cancel", "finish"}

\* C1: whenever tool_node is about to execute with next_action replace or
\* cancel, validated is already true in the state it reads.
C1_NoDestructiveDispatchUnvalidated ==
    ("tool" \in pending /\ Get(state, "next_action", "finish") \in Destructive)
        => Get(state, "validated", FALSE)

\* tool_node has dispatched replace or cancel on a validated state.
C1_Witness ==
    /\ "result" \in DOMAIN writes
    /\ Get(state, "next_action", "finish") \in Destructive
    /\ Get(state, "validated", FALSE)

\* C2: a run executes tool_node at most max_steps times, whatever the
\* planner returns.
C2_AtMostMaxStepsDispatches == hist.dispatches <= max_steps

\* C3: step_count never exceeds max_steps.
C3_StepCountWithinBudget == Get(state, "step_count", 0) <= max_steps

\* C4: when every proposal of the planner is replace or cancel, the run
\* dispatches exactly twice (validate, then the proposal), neither the
\* planner nor the dispatcher runs once result is present, and the run ends
\* with result set and step_count = 2.
C4_DestructivePlannerTwoDispatches ==
    hist.mode = "destructive" =>
        /\ hist.dispatches <= 2
        /\ "result" \in DOMAIN state =>
              /\ "planner" \notin pending
              /\ "tool" \notin pending
        /\ status = "done" =>
              /\ Get(state, "result", "") \in {REPLACE_RESULT, CANCEL_RESULT}
              /\ Get(state, "step_count", 0) = 2
              /\ hist.dispatches = 2

\* C5: when every proposal of the planner is validate, the run executes
\* exactly max_steps dispatches and ends with result absent and
\* step_count = max_steps.
C5_ValidatePlannerExactlyMaxSteps ==
    hist.mode = "validate" =>
        /\ hist.dispatches <= max_steps
        /\ Get(state, "step_count", 0) <= max_steps
        /\ status = "done" =>
              /\ "result" \notin DOMAIN state
              /\ Get(state, "step_count", 0) = max_steps
              /\ hist.dispatches = max_steps

\* C6: when the guarded decision of the first planner invocation (the one
\* of superstep 2) is finish, nothing is triggered and the run ends there:
\* no dispatch, no step increment, no result, validated not set.
C6_FirstFinishEndsRun ==
    (superstep = 2 /\ status # "error"
       /\ Get(Merge(writes, state), "next_action", None) = "finish")
        => /\ pending = {}
           /\ nextTrig = {}
           /\ hist.dispatches = 0
           /\ Get(Merge(writes, state), "step_count", 0) = 0
           /\ "result" \notin DOMAIN Merge(writes, state)
           /\ ~Get(Merge(writes, state), "validated", FALSE)
           /\ "next_action" \in DOMAIN state => status = "done"

\* The run has ended at the first planner decision.
C6_Witness ==
    /\ superstep = 2
    /\ status = "done"
    /\ Get(state, "next_action", None) = "finish"

\* C7: after planner_node has run, next_action is one of the four actions.
C7_NextActionEnumerated ==
    "next_action" \in DOMAIN state => state["next_action"] \in FourActions

\* C8: when the planner cannot parse the gateway's text, its decision is
\* finish with the apology and plan_reason "parse_error", and the run
\* finishes with that superstep: nothing is triggered after it.
C8_PlannerParseFailureFinishesRun ==
    ("planner" \in DOMAIN text /\ text["planner"].kind # "object")
        => /\ Get(writes, "next_action", None) = "finish"
           /\ Get(writes, "assistant_message", "") = APOLOGY
           /\ Get(writes, "plan_reason", EMPTY) = PARSE_ERROR
           /\ status = "running"
           /\ pending = {} => nextTrig = {}

\* C9: the classifier returns an intent among replace, cancel, unknown, and
\* on a parse failure (no JSON, no object, a missing field) it returns
\* unknown with reason "parse_error"; the planner is triggered next.
C9_ClassifierParseFailure ==
    "classify" \in DOMAIN text =>
        LET resp == text["classify"] IN
        /\ Get(writes, "intent", None) \in {"replace", "cancel", "unknown"}
        /\ (resp.kind # "object" \/ {"intent", "reason"} \ DOMAIN resp.obj # {})
              => /\ Get(writes, "intent", None) = "unknown"
                 /\ Get(writes, "intent_reason", "") = "parse_error"
        /\ nextTrig = {"planner"}

\* C10: a gateway call that fails makes the invoke raise, and nothing more
\* of the run executes: no node is pending or triggered, no step of the
\* invoke is enabled.
C10_GatewayFailureIsFatal ==
    hist.error = "gateway" =>
        /\ status = "error"
        /\ pending = {}
        /\ nextTrig = {}
        /\ ~ENABLED RunNext

\* The gateway failed in a planner call made after a dispatch.
C10_Witness ==
    /\ hist.error = "gateway"
    /\ status = "error"
    /\ hist.dispatches > 0

\* C11 (as stated): a failed gateway call in the classifier or the planner
\* is handled like a parse failure and the run does not abort.
C11_GatewayFailureHandledAsParseFailure ==
    hist.error = "gateway" => status # "error"

\* C11 (amended): a failed gateway call in the classifier or the planner is
\* not handled like a parse failure: the step in which it fails writes no
\* fallback decision, leaves the state as it was and makes the invoke raise.
C11_GatewayFailureWritesNoFallback ==
    [][(hist'.error = "gateway" /\ hist.error # "gateway")
          => /\ status' = "error"
             /\ writes' = EmptyDict
             /\ state' = state
             /\ session' = session]_vars

\* The gateway failed in the classifier: the run raised with a state that
\* holds the request only.
C11_Witness ==
    /\ hist.error = "gateway"
    /\ status = "error"
    /\ superstep = 1
    /\ DOMAIN state = {"user_input"}

\* C12: every run starts from a state that holds user_input only, and a
\* later submission dispatches replace or cancel only after a validate
\* dispatch of its own.
C12_FreshStatePerSubmission ==
    /\ superstep = 1 =>
          /\ DOMAIN state = {"user_input"}
          /\ ~hist.ownValidate
          /\ hist.dispatches = 0
    /\ ("tool" \in pending /\ Get(state, "next_action", "finish") \in Destructive)
          => hist.ownValidate

\* A second submission is about to dispatch replace or cancel after a
\* validate dispatch of its own.
C12_Witness ==
    /\ run = 2
    /\ "tool" \in pending
    /\ Get(state, "next_action", "finish") \in Destructive
    /\ hist.ownValidate
    /\ "result" \notin DOMAIN state

\* C13: the nodes of a run execute one at a time: the planner never shares a
\* superstep with tool_node or step_node, and it reads a state in which
\* every dispatch so far has had its step increment merged.
C13_NodesRunOneAtATime ==
    /\ Cardinality(pending) <= 1
    /\ "planner" \in pending => Get(state, "step_count", 0) = hist.dispatches

\* C14 (as stated): at every node boundary (the end of every superstep) and
\* in the final state, step_count equals the number of tool_node executions
\* completed so far.
C14_StepCountEqualsDispatchesAtBoundaries ==
    [][(run' = run /\ status' # "error"
          /\ (superstep' # superstep \/ status' = "done"))
          => Get(state', "step_count", 0) = hist'.dispatches]_vars

\* Dispatches whose step increment is still to come: step_node is triggered
\* or pending for them.
StepsOwed == Cardinality({"step"} \cap pending) + Cardinality({"step"} \cap nextTrig)

StepCountAccounted ==
    /\ hist.dispatches = Get(Merge(writes, state), "step_count", 0) + StepsOwed
    /\ status = "done" => Get(state, "step_count", 0) = hist.dispatches

\* C14 (amended): step_count never decreases during a run and is incremented
\* exactly once per dispatch, in the superstep after it: it equals the
\* number of completed tool_node executions less those whose step_node has
\* not run yet, and equals that number in the state a run returns.
C14_StepCountOncePerDispatch ==
    [][(run' = run /\ status' # "error")
          => /\ Get(state', "step_count", 0) >= Get(state, "step_count", 0)
             /\ StepCountAccounted']_vars

\* A run has returned after several dispatches, each counted once.
C14_Witness ==
    /\ status = "done"
    /\ hist.dispatches >= 3
    /\ Get(state, "step_count", 0) = hist.dispatches

\* C15: result is written only by a dispatch of replace or cancel: it enters
\* the updates of a superstep only when tool_node runs on such a
\* next_action, and the state's result changes only by merging that update.
C15_ResultOnlyFromDestructiveDispatch ==
    [][/\ ("result" \in DOMAIN writes' /\ "result" \notin DOMAIN writes)
            => /\ "tool" \in pending
               /\ "tool" \notin pending'
               /\ Get(state, "next_action", "finish") \in Destructive
               /\ writes'["result"] \in {REPLACE_RESULT, CANCEL_RESULT}
       /\ (run' = run /\ Get(state', "result", "") # Get(state, "result", ""))
            => /\ "result" \in DOMAIN writes
               /\ state'["result"] = writes["result"]]_vars

\* tool_node has dispatched validate or an unrecognized action on a state
\* that holds a result, and has left the result alone.
C15_Witness ==
    /\ "result" \in DOMAIN state
    /\ Get(state, "next_action", "finish") \in {"validate", "refund"}
    /\ "step" \in nextTrig
    /\ "result" \notin DOMAIN writes

\* C16: within a run validated only goes from false to true: once true in
\* the state it stays true, and every update of it writes true.
C16_ValidatedNeverReset ==
    [][/\ (run' = run /\ Get(state, "validated", FALSE))
            => Get(state', "validated", FALSE)
       /\ "validated" \in DOMAIN writes' => writes'["validated"] = TRUE]_vars

\* validate has been dispatched a second time, on a validated state.
C16_Witness ==
    /\ Get(state, "validated", FALSE)
    /\ "validated" \in DOMAIN writes
    /\ writes["validated"] = TRUE

\* C17: when the guard rewrites a decision, plan_reason is at most 500
\* characters long and ends with the whole guard annotation; when it does
\* not, next_action and plan_reason are those of the planner's decision.
C17_GuardAnnotationKept ==
    "planner" \in DOMAIN text =>
        LET out == planner_agent(text["planner"], state)
            reason == Get(writes, "plan_reason", EMPTY)
        IN IF GuardFires(out, state)
           THEN /\ Get(writes, "next_action", None) = "validate"
                /\ StrLen(reason) <= ReasonCap
                /\ Len(reason) >= 1
                /\ reason[Len(reason)] = GUARD_ANNOTATION[1]
           ELSE /\ Get(writes, "next_action", None) = out["next_action"]
                /\ reason = out["plan_reason"]

\* C18: whenever result is present, in the state or in the updates of the
\* current superstep, validated is true in the state.
C18_ResultImpliesValidated ==
    "result" \in DOMAIN Merge(writes, state) => Get(state, "validated", FALSE)

\* A run has returned with a result and validated set.
C18_Witness ==
    /\ status = "done"
    /\ "result" \in DOMAIN state
    /\ Get(state, "validated", FALSE)

\* C19: replace or cancel is dispatched at most once in a run: tool_node is
\* never about to execute replace or cancel on a state that holds a result.
C19_DestructiveAtMostOnce ==
    ("tool" \in pending /\ Get(state, "next_action", "finish") \in Destructive)
        => "result" \notin DOMAIN state
====
